---- MODULE Spec2Model ----
(***************************************************************************)
(* Model of scripts/sprint_manager.py: the task store loaded at process    *)
(* start, the start / done / toggle / run operations, the JSON persister   *)
(* and the Markdown patcher (update_markdown_task).                        *)
(*                                                                         *)
(* A text is a sequence of one-character strings.  A file on disk is the   *)
(* sequence of its bytes; Python's text-mode open() translates newlines    *)
(* between the two, and that translation is modelled (ReadText/WriteText). *)
(*                                                                         *)
(* Outside the model: file-system errors (a failed open or write), task    *)
(* objects without a "done" key, and task texts holding a backslash.       *)
(***************************************************************************)
EXTENDS Integers, Sequences, FiniteSets, TLC

VARIABLES platform, docs_exists, json, md, arcano_tasks, pc, clock, out,
          listing, saved, hist

vars == <<platform, docs_exists, json, md, arcano_tasks, pc, clock, out,
          listing, saved, hist>>

(***************************************************************************)
(* Bounds of the model.                                                    *)
(***************************************************************************)
\* lines of a Markdown document drawn for the patcher
MaxLines == 3
\* datetime.now() readings per behaviour
MaxClock == 2
\* calls of the patcher per behaviour
MaxCalls == 2

(***************************************************************************)
(* Characters.                                                             *)
(***************************************************************************)
SP == " "
LF == "\n"
CR == "\r"
TAB == "\t"

\* what the regex class \s matches among the modelled characters
IsSpace(c) == c \in {SP, LF, CR, TAB}

Min(S) == CHOOSE x \in S : \A y \in S : x <= y

\* s[a..b] as a sequence (empty when a > b)
Slice(s, a, b) == [i \in 1..(b - a + 1) |-> s[a + i - 1]]

\* does s hold the text t from position p
StartsWithAt(s, p, t) ==
    /\ p + Len(t) - 1 <= Len(s)
    /\ \A i \in 1..Len(t) : s[p + i - 1] = t[i]

(***************************************************************************)
(* Text-mode file I/O: open(path, 'r') reads with universal newlines       *)
(* ("\r\n" and a lone "\r" both become "\n"); open(path, 'w') writes every *)
(* "\n" as os.linesep.                                                     *)
(***************************************************************************)
RECURSIVE ReadText(_)
ReadText(bytes) ==
    IF bytes = <<>> THEN <<>>
    ELSE IF Head(bytes) = CR
         THEN IF Len(bytes) >= 2 /\ bytes[2] = LF
              THEN <<LF>> \o ReadText(Tail(Tail(bytes)))
              ELSE <<LF>> \o ReadText(Tail(bytes))
         ELSE <<Head(bytes)>> \o ReadText(Tail(bytes))

linesep == IF platform = "nt" THEN <<CR, LF>> ELSE <<LF>>

RECURSIVE WriteText(_)
WriteText(text) ==
    IF text = <<>> THEN <<>>
    ELSE (IF Head(text) = LF THEN linesep ELSE <<Head(text)>>)
         \o WriteText(Tail(text))

\* The pattern of update_markdown_task matched at position p of s:
\*   group 1: CR? LF, or the start of the text (the anchor A);
\*   group 2: a greedy run of whitespace;
\*   "- [", group 3: a space or "x", "] ", the escaped task text;
\*   group 4: CR? LF, or the end of the text (the anchor Z).
\* The character after group 2 is "-", so only the maximal run of whitespace
\* can match.
NoMatch == [ok |-> FALSE, g1 |-> <<>>, g2 |-> <<>>, g4 |-> <<>>, end |-> 0]

\* length of the maximal whitespace run of s from position q
RECURSIVE SpaceRun(_, _)
SpaceRun(s, q) ==
    IF q <= Len(s) /\ IsSpace(s[q]) THEN 1 + SpaceRun(s, q + 1) ELSE 0

\* the text matched by the first (length n1, from p) and the rest of the pattern
MatchRest(s, p, n1, task_text) ==
    LET q  == p + n1
        w  == q + SpaceRun(s, q)
        m  == w + 3
        t  == m + 3
        e  == t + Len(task_text)
        n4 == IF StartsWithAt(s, e, <<CR, LF>>) THEN 2
              ELSE IF StartsWithAt(s, e, <<LF>>) THEN 1
              ELSE IF e = Len(s) + 1 THEN 0
              ELSE -1
    IN  IF /\ StartsWithAt(s, w, <<"-", SP, "[">>)
           /\ m <= Len(s) /\ s[m] \in {SP, "x"}
           /\ StartsWithAt(s, m + 1, <<"]", SP>>)
           /\ StartsWithAt(s, t, task_text)
           /\ n4 >= 0
        THEN [ok |-> TRUE, g1 |-> Slice(s, p, q - 1), g2 |-> Slice(s, q, w - 1),
              g4 |-> Slice(s, e, e + n4 - 1), end |-> e + n4]
        ELSE NoMatch

MatchAt(s, p, task_text) ==
    LET n1 == IF StartsWithAt(s, p, <<CR, LF>>) THEN 2
              ELSE IF StartsWithAt(s, p, <<LF>>) THEN 1
              ELSE -1
        a  == IF n1 > 0 THEN MatchRest(s, p, n1, task_text) ELSE NoMatch
    IN  IF a.ok THEN a
        ELSE IF p = 1 THEN MatchRest(s, p, 0, task_text)
        ELSE NoMatch

\* the replacement template  \1\2- [mark] task_text\4  (the task texts of the
\* model hold no backslash, so the template inserts task_text literally)
Replacement(mt, mark, task_text) ==
    mt.g1 \o mt.g2 \o <<"-", SP, "[", mark, "]", SP>> \o task_text \o mt.g4

\* re.sub: leftmost matches, each search resuming where the last match ended
RECURSIVE ReSub(_, _, _, _)
ReSub(s, pos, mark, task_text) ==
    LET starts == {p \in pos..Len(s) : MatchAt(s, p, task_text).ok}
    IN  IF starts = {} THEN Slice(s, pos, Len(s))
        ELSE LET st == Min(starts)
                 mt == MatchAt(s, st, task_text)
             IN  Slice(s, pos, st - 1) \o Replacement(mt, mark, task_text)
                 \o ReSub(s, mt.end, mark, task_text)

(***************************************************************************)
(* update_markdown_task(file_path, task_text, new_status) on the file      *)
(* record f = [exists, bytes]: the value returned and the file afterwards. *)
(***************************************************************************)
Mark(new_status) == IF new_status THEN "x" ELSE SP

UpdatedContent(content, task_text, new_status) ==
    ReSub(content, 1, Mark(new_status), task_text)

update_markdown_task(f, task_text, new_status) ==
    IF ~f.exists THEN [ret |-> FALSE, file |-> f]
    ELSE LET content == ReadText(f.bytes)
             updated_content == UpdatedContent(content, task_text, new_status)
         IN  IF content = updated_content
             THEN [ret |-> FALSE, file |-> f]
             ELSE [ret |-> TRUE,
                   file |-> [exists |-> TRUE, bytes |-> WriteText(updated_content)]]

(***************************************************************************)
(* Tasks and the JSON file.  A task is the dict {"task", "done",           *)
(* "started_at"?, "completed_at"?}; a timestamp of 0 is an absent key.     *)
(* A JSON file is absent, undecodable ("bad") or an array of objects; an   *)
(* object is the sequence of its members <<key, literal>>.                 *)
(***************************************************************************)
Task(text, done) ==
    [task |-> text, done |-> done, started_at |-> 0, completed_at |-> 0]

NoFile == [kind |-> "absent", objs |-> <<>>]
BadJson == [kind |-> "bad", objs |-> <<>>]
JsonArray(objs) == [kind |-> "array", objs |-> objs]

HasKey(obj, k) == \E i \in 1..Len(obj) : obj[i][1] = k
Get(obj, k) == obj[CHOOSE i \in 1..Len(obj) : obj[i][1] = k][2]

\* datetime.now().isoformat() of the n-th clock reading, and its parse
IsoFormat(n) == <<ToString(n)>>
ParseIso(v) == CHOOSE n \in 1..(MaxClock + 1) : IsoFormat(n) = v

\* a dump that writes only "task" and "done"
DumpItemWithoutStamps(t) ==
    <<  <<"task", t.task>>, <<"done", <<IF t.done THEN "true" ELSE "false">>>>  >>

DumpItem(t) ==
    <<  <<"task", t.task>>, <<"done", <<IF t.done THEN "true" ELSE "false">>>>  >>
    \o (IF t.started_at # 0
        THEN << <<"started_at", IsoFormat(t.started_at)>> >> ELSE <<>>)
    \o (IF t.completed_at # 0
        THEN << <<"completed_at", IsoFormat(t.completed_at)>> >> ELSE <<>>)

\* json.dump(tasks, f, indent=2)
JsonDump(tasks) == JsonArray([i \in 1..Len(tasks) |-> DumpItem(tasks[i])])

LoadItem(obj) ==
    [task |-> Get(obj, "task"),
     done |-> HasKey(obj, "done") /\ Get(obj, "done") = <<"true">>,
     started_at |-> IF HasKey(obj, "started_at")
                    THEN ParseIso(Get(obj, "started_at")) ELSE 0,
     completed_at |-> IF HasKey(obj, "completed_at")
                      THEN ParseIso(Get(obj, "completed_at")) ELSE 0]

\* json.load(f) of a decodable array
JsonLoad(c) == [i \in 1..Len(c.objs) |-> LoadItem(c.objs[i])]

\* isinstance(data, list) and all('task' in item for item in data)
Qualifies(c) ==
    /\ c.kind = "array"
    /\ \A i \in 1..Len(c.objs) : HasKey(c.objs[i], "task")

(***************************************************************************)
(* The Markdown fallback of load_tasks_from_any_json_or_md: every line in  *)
(* which  - [ ] text  or  - [x] text  occurs (re.search: anywhere in the   *)
(* line) gives a task whose text is the rest of the line.                  *)
(***************************************************************************)
\* content.splitlines() of a text already read with universal newlines
RECURSIVE SplitLines(_, _)
SplitLines(text, cur) ==
    IF text = <<>> THEN (IF cur = <<>> THEN <<>> ELSE <<cur>>)
    ELSE IF Head(text) \in {LF, CR}
         THEN <<cur>> \o SplitLines(Tail(text), <<>>)
         ELSE SplitLines(Tail(text), Append(cur, Head(text)))

IsBoxAt(line, p) ==
    /\ StartsWithAt(line, p, <<"-", SP, "[">>)
    /\ p + 3 <= Len(line) /\ line[p + 3] \in {SP, "x"}
    /\ StartsWithAt(line, p + 4, <<"]", SP>>)

LineTasks(line) ==
    LET ps == {p \in 1..Len(line) : IsBoxAt(line, p)}
    IN  IF ps = {} THEN <<>>
        ELSE LET p == Min(ps)
             IN  << Task(Slice(line, p + 6, Len(line)), line[p + 3] = "x") >>

RECURSIVE TasksOfLines(_)
TasksOfLines(lines) ==
    IF lines = <<>> THEN <<>>
    ELSE LineTasks(Head(lines)) \o TasksOfLines(Tail(lines))

MdTasks(f) == TasksOfLines(SplitLines(ReadText(f.bytes), <<>>))

(***************************************************************************)
(* The inputs of the model: task texts, command-line keys, documents.      *)
(***************************************************************************)
\* the built-in task list (each text is held as one token)
arcano_default ==
    << Task(<<"Automated Debug System (Highest Priority)">>, FALSE),
       Task(<<"Develop advanced deck sharing & privacy features">>, FALSE),
       Task(<<"Implement lazy loading for media assets">>, FALSE),
       Task(<<"Reduce API response times through optimization">>, FALSE),
       Task(<<"Enhance accessibility features">>, FALSE),
       Task(<<"Implement advanced customization options for UX">>, FALSE),
       Task(<<"Add personalized recommendations">>, FALSE),
       Task(<<"Implement user feedback loop for AI improvements">>, FALSE),
       Task(<<"Add advanced customization options for AI-generated content">>, FALSE),
       Task(<<"Explore additional AI model integrations">>, FALSE) >>

JsonNames == {"sprint.json", "other.json"}
MdNames == {"sprint.md", "todo.md"}
MdOrder == <<"sprint.md", "todo.md">>

\* task texts stored in files: "a" and "ab" ("a" is a strict prefix of "ab")
Texts == { <<"a">>, <<"a", "b">> }
\* keys given on the command line: the texts, "A" and " a" (case and
\* whitespace variants of "a"), and the first built-in task
Keys == Texts \cup { <<"A">>, <<SP, "a">>, arcano_default[1].task }

SeqsUpTo(S, n) == UNION { [1..k -> S] : k \in 0..n }

\* a checklist line without its terminator
BoxLine(indent, mark, text) == indent \o <<"-", SP, "[", mark, "]", SP>> \o text

\* the lines of a document: checklist lines of both texts, checked or not, an
\* indented one, a line of prose and a blank line
Lines ==
    { BoxLine(<<>>, m, t) : m \in {SP, "x"}, t \in Texts }
    \cup { BoxLine(<<SP>>, SP, <<"a">>), <<"b">>, <<>> }

\* the bytes of a document: its lines, each ended by eol, the last one only
\* when final is true
RECURSIVE Doc(_, _, _)
Doc(ls, eol, final) ==
    IF ls = <<>> THEN <<>>
    ELSE IF Len(ls) = 1 THEN Head(ls) \o (IF final THEN eol ELSE <<>>)
    ELSE Head(ls) \o eol \o Doc(Tail(ls), eol, final)

File(bytes) == [exists |-> TRUE, bytes |-> bytes]
NoMd == [exists |-> FALSE, bytes |-> <<>>]

\* documents the patcher is applied to
PatchDocs ==
    { Doc(ls, eol, final) : ls \in SeqsUpTo(Lines, MaxLines) \ {<<>>},
                            eol \in {<<LF>>, <<CR, LF>>}, final \in BOOLEAN }

\* docs/sprint.md and docs/todo.md at the start of a command-line session
SprintMds ==
    { NoMd,
      File(Doc(<<BoxLine(<<>>, SP, <<"a">>)>>, <<LF>>, TRUE)),
      File(Doc(<<BoxLine(<<>>, "x", <<"a">>), BoxLine(<<>>, SP, <<"a", "b">>)>>,
               <<LF>>, TRUE)),
      File(Doc(<< <<"b">> >>, <<LF>>, TRUE)) }
TodoMds == { NoMd, File(Doc(<<BoxLine(<<SP>>, SP, <<"a">>)>>, <<LF>>, TRUE)) }

\* docs/sprint.json and another *.json of docs at the start of a session
SprintJsons ==
    { NoFile,
      JsonDump(<<>>),
      JsonDump(<< Task(<<"a">>, FALSE) >>),
      JsonDump(<< Task(<<"a">>, TRUE) >>),
      JsonDump(<< Task(<<"a">>, FALSE), Task(<<"a", "b">>, FALSE) >>),
      JsonDump(<< Task(<<"a", "b">>, TRUE), Task(<<"a">>, FALSE) >>),
      JsonDump(<< Task(<<"a">>, FALSE), Task(<<"a">>, FALSE) >>) }
OtherJsons ==
    { NoFile, BadJson, JsonArray(<<>>),
      JsonArray(<< << <<"id", <<"T">>>> >> >>),
      JsonDump(<< Task(<<"a", "b">>, FALSE) >>) }

NoSave == [valid |-> FALSE, tasks |-> <<>>]

(***************************************************************************)
(* State after construction: a docs directory drawn from the sets above,   *)
(* no process running.                                                     *)
(***************************************************************************)
Init ==
    /\ platform \in {"posix", "nt"}
    /\ json \in [JsonNames -> SprintJsons \cup OtherJsons]
    /\ json["sprint.json"] \in SprintJsons
    /\ json["other.json"] \in OtherJsons
    /\ md \in [MdNames -> SprintMds \cup TodoMds]
    /\ md["sprint.md"] \in SprintMds
    /\ md["todo.md"] \in TodoMds
    /\ docs_exists \in BOOLEAN
    /\ ((\E f \in JsonNames : json[f].kind # "absent")
        \/ (\E f \in MdNames : md[f].exists)) => docs_exists
    /\ arcano_tasks = arcano_default
    /\ pc = "idle"
    /\ clock = 0
    /\ out = "none"
    /\ listing = <<>>
    /\ saved = NoSave
    /\ hist = <<>>

(***************************************************************************)
(* Process start: load_tasks_from_any_json_or_md and the assignment of     *)
(* arcano_tasks.  os.listdir returns the *.json files in an order the      *)
(* program does not control.                                               *)
(***************************************************************************)
Orders(S) ==
    { o \in [1..Cardinality(S) -> S] : \A i, j \in 1..Cardinality(S) :
                                          o[i] = o[j] => i = j }

\* the first file of the listing that decodes to a qualifying array
JsonHits(order) == {i \in 1..Len(order) : Qualifies(json[order[i]])}

MdHits == {i \in 1..Len(MdOrder) :
              md[MdOrder[i]].exists /\ MdTasks(md[MdOrder[i]]) # <<>>}

\* the value returned: found is FALSE for None
load_tasks_from_any_json_or_md(order) ==
    IF docs_exists /\ JsonHits(order) # {}
    THEN [found |-> TRUE, tasks |-> JsonLoad(json[order[Min(JsonHits(order))]])]
    ELSE IF MdHits # {}
    THEN [found |-> TRUE, tasks |-> MdTasks(md[MdOrder[Min(MdHits)]])]
    ELSE [found |-> FALSE, tasks |-> <<>>]

loaded_tasks(order) ==
    LET r == load_tasks_from_any_json_or_md(order)
    IN  IF r.found THEN r.tasks ELSE arcano_default

Load ==
    /\ pc = "idle"
    /\ \E order \in Orders({f \in JsonNames : json[f].kind # "absent"}) :
          /\ listing' = order
          /\ arcano_tasks' = loaded_tasks(order)
    /\ pc' = "loaded"
    /\ out' = "none"
    /\ hist' = <<>>
    /\ UNCHANGED <<platform, docs_exists, json, md, clock, saved>>

(***************************************************************************)
(* The operations of main(), each run once by a loaded process.            *)
(***************************************************************************)
\* datetime.now() of the operation
now == clock + 1

\* the snapshot an operation leaves behind: what it was called with, whether
\* it found its task (or what the patcher returned), and the store and the
\* files before it ran
Entry(op, name, status, ret) ==
    [op |-> op, name |-> name, status |-> status, ret |-> ret,
     tasks |-> arcano_tasks, json |-> json, md |-> md, docs |-> docs_exists]

LowerChar(c) == IF c = "A" THEN "a" ELSE IF c = "B" THEN "b" ELSE c
Lower(text) == [i \in 1..Len(text) |-> LowerChar(text[i])]

RECURSIVE LStrip(_)
LStrip(text) ==
    IF text # <<>> /\ IsSpace(Head(text)) THEN LStrip(Tail(text)) ELSE text
RECURSIVE RStrip(_)
RStrip(text) ==
    IF text # <<>> /\ IsSpace(text[Len(text)])
    THEN RStrip(SubSeq(text, 1, Len(text) - 1)) ELSE text
Strip(text) == LStrip(RStrip(text))

\* str.lower().strip() equality: case-insensitive, whitespace-trimmed, exact
SameKey(text, key) == Lower(Strip(text)) = Lower(Strip(key))

\* the comparison made on lowered, stripped texts
MatchesIgnoringCase(task, task_name) == SameKey(task.task, task_name)

\* task['task'] == task_name
Matches(task, task_name) == task.task = task_name

\* the task the for loop of start / done / toggle stops at
Found(task_name) ==
    {i \in 1..Len(arcano_tasks) : Matches(arcano_tasks[i], task_name)}

\* save_tasks_to_json(tasks): os.makedirs(docs) and json.dump to sprint.json
save_tasks_to_json(tasks) ==
    /\ docs_exists' = TRUE
    /\ json' = [json EXCEPT !["sprint.json"] = JsonDump(tasks)]
    /\ saved' = [valid |-> TRUE, tasks |-> tasks]

\* the not-found path with the save moved out of the loop
NotFoundButSaved(op, task_name) ==
    /\ Found(task_name) = {}
    /\ out' = "not_found"
    /\ hist' = <<Entry(op, task_name, FALSE, FALSE)>>
    /\ save_tasks_to_json(arcano_tasks)
    /\ UNCHANGED <<arcano_tasks, md, clock>>

\* print("Task not found"): nothing is saved or patched
NotFound(op, task_name) ==
    /\ Found(task_name) = {}
    /\ out' = "not_found"
    /\ hist' = <<Entry(op, task_name, FALSE, FALSE)>>
    /\ UNCHANGED <<arcano_tasks, docs_exists, json, md, saved, clock>>

start_task(task_name) ==
    \/ /\ Found(task_name) # {}
       /\ clock < MaxClock
       /\ LET i == Min(Found(task_name))
              tasks == [arcano_tasks EXCEPT ![i].done = FALSE,
                                            ![i].started_at = now]
          IN  /\ arcano_tasks' = tasks
              /\ save_tasks_to_json(tasks)
       /\ clock' = now
       /\ out' = "started"
       /\ hist' = <<Entry("start", task_name, FALSE, TRUE)>>
       /\ UNCHANGED md
    \/ NotFound("start", task_name)

mark_task_done(task_name) ==
    \/ /\ Found(task_name) # {}
       /\ clock < MaxClock
       /\ LET i == Min(Found(task_name))
              tasks == [arcano_tasks EXCEPT ![i].done = TRUE,
                                            ![i].completed_at = now]
          IN  /\ arcano_tasks' = tasks
              /\ save_tasks_to_json(tasks)
       /\ clock' = now
       /\ out' = "completed"
       /\ hist' = <<Entry("done", task_name, TRUE, TRUE)>>
       /\ UNCHANGED md
    \/ NotFound("done", task_name)

\* the loop over ['sprint.md', 'todo.md'] of toggle_task_status
PatchedMd(task_name, done) ==
    [f \in MdNames |-> update_markdown_task(md[f], task_name, done).file]

toggle_task_status(task_name) ==
    \/ /\ Found(task_name) # {}
       /\ clock < MaxClock
       /\ LET i == Min(Found(task_name))
              done == ~arcano_tasks[i].done
              tasks == IF done
                       THEN [arcano_tasks EXCEPT ![i].done = TRUE,
                                                 ![i].completed_at = now]
                       ELSE [arcano_tasks EXCEPT ![i].done = FALSE,
                                                 ![i].started_at = now]
          IN  /\ arcano_tasks' = tasks
              /\ save_tasks_to_json(tasks)
              /\ md' = PatchedMd(task_name, done)
              /\ out' = IF done THEN "completed" ELSE "reopened"
              /\ hist' = <<Entry("toggle", task_name, done, TRUE)>>
       /\ clock' = now
    \/ NotFound("toggle", task_name)

\* run_sprint prints the unfinished tasks and saves the list as it is
run_sprint(sprint_name) ==
    /\ LET changed == \E i \in 1..Len(arcano_tasks) : ~arcano_tasks[i].done
       IN  IF changed
           THEN save_tasks_to_json(arcano_tasks)
           ELSE UNCHANGED <<docs_exists, json, saved>>
    /\ out' = "sprint_complete"
    /\ hist' = <<Entry("run", sprint_name, FALSE, TRUE)>>
    /\ UNCHANGED <<arcano_tasks, md, clock>>

show_status ==
    /\ out' = "status"
    /\ hist' = <<Entry("status", <<>>, FALSE, TRUE)>>
    /\ UNCHANGED <<arcano_tasks, docs_exists, json, md, saved, clock>>

\* the process exits after its one operation
Exit == pc' = "idle" /\ UNCHANGED <<platform, listing>>

Start == pc = "loaded" /\ Exit /\ \E k \in Keys : start_task(k)
Done == pc = "loaded" /\ Exit /\ \E k \in Keys : mark_task_done(k)
Toggle == pc = "loaded" /\ Exit /\ \E k \in Keys : toggle_task_status(k)
Run == pc = "loaded" /\ Exit /\ \E k \in Keys : run_sprint(k)
Status == pc = "loaded" /\ Exit /\ show_status

Next == Load \/ Start \/ Done \/ Toggle \/ Run \/ Status

Spec == Init /\ [][Next]_vars

(***************************************************************************)
(* The patcher on its own: update_markdown_task called on docs/sprint.md   *)
(* with any task text and status, MaxCalls times.  hist keeps each call    *)
(* with the files before it; no task store is loaded.                      *)
(***************************************************************************)
InitPatch ==
    /\ platform \in {"posix", "nt"}
    /\ json = [f \in JsonNames |-> NoFile]
    /\ md \in [MdNames -> {NoMd} \cup {File(b) : b \in PatchDocs}]
    /\ md["todo.md"] = NoMd
    /\ docs_exists = TRUE
    /\ arcano_tasks = <<>>
    /\ pc = "call"
    /\ clock = 0
    /\ out = "none"
    /\ listing = <<>>
    /\ saved = NoSave
    /\ hist = <<>>

Patch(task_text, new_status) ==
    /\ pc = "call"
    /\ Len(hist) < MaxCalls
    /\ LET r == update_markdown_task(md["sprint.md"], task_text, new_status)
       IN  /\ md' = [md EXCEPT !["sprint.md"] = r.file]
           /\ hist' = Append(hist, Entry("patch", task_text, new_status, r.ret))
    /\ UNCHANGED <<platform, docs_exists, json, arcano_tasks, pc, clock, out,
                   listing, saved>>

NextPatch == \E t \in Texts, st \in BOOLEAN : Patch(t, st)

PatchSpec == InitPatch /\ [][NextPatch]_vars

(***************************************************************************)
(* Vocabulary of the properties.                                           *)
(***************************************************************************)
\* the lines of a file, each with its terminator
RECURSIVE ByteLines(_, _)
ByteLines(bytes, cur) ==
    IF bytes = <<>> THEN (IF cur = <<>> THEN <<>> ELSE <<cur>>)
    ELSE IF Head(bytes) = LF
         THEN <<Append(cur, LF)>> \o ByteLines(Tail(bytes), <<>>)
         ELSE ByteLines(Tail(bytes), Append(cur, Head(bytes)))

\* a line without its terminator (LF or CR LF)
Body(line) ==
    LET n == Len(line)
        k == IF n >= 2 /\ line[n - 1] = CR /\ line[n] = LF THEN 2
             ELSE IF n >= 1 /\ line[n] = LF THEN 1 ELSE 0
    IN  Slice(line, 1, n - k)

\* a checklist line: indentation, the checkbox, the label
IsChecklist(line) ==
    LET b == Body(line) IN IsBoxAt(b, SpaceRun(b, 1) + 1)
LabelOf(line) ==
    LET b == Body(line) IN Slice(b, SpaceRun(b, 1) + 7, Len(b))
MarkOf(line) ==
    LET b == Body(line) IN b[SpaceRun(b, 1) + 4]

HasLabel(line, text) == IsChecklist(line) /\ LabelOf(line) = text

Contains(text, sub) == \E p \in 1..(Len(text) + 1) : StartsWithAt(text, p, sub)

\* the operation the last process ran, and the files and store before it
AfterOp(ops) == pc = "idle" /\ hist # <<>> /\ hist[1].op \in ops
Mutators == {"start", "done", "toggle"}
ExactHits == {i \in 1..Len(hist[1].tasks) : hist[1].tasks[i].task = hist[1].name}
KeyHits == {i \in 1..Len(hist[1].tasks) : SameKey(hist[1].tasks[i].task, hist[1].name)}

OthersUntouched(i) ==
    /\ Len(arcano_tasks) = Len(hist[1].tasks)
    /\ \A j \in 1..Len(arcano_tasks) : j # i => arcano_tasks[j] = hist[1].tasks[j]

FilesUnchanged ==
    /\ json = hist[1].json
    /\ md = hist[1].md
    /\ docs_exists = hist[1].docs

\* the last call of the patcher, the file before it and after it
LastCall == hist[Len(hist)]
BeforeCall == LastCall.md["sprint.md"].bytes
AfterCall == md["sprint.md"].bytes
Patched == pc = "call" /\ hist # <<>>

(***************************************************************************)
(* Properties of the patcher, under PatchSpec.                             *)
(***************************************************************************)
\* C1: a call of update_markdown_task that modifies the file rewrites
\* exactly one line and leaves every other line of the file, terminator
\* included, as it was.
C1_ExactlyOneLineRewritten ==
    (Patched /\ LastCall.ret) =>
        LET b == ByteLines(BeforeCall, <<>>)
            a == ByteLines(AfterCall, <<>>)
        IN  /\ Len(a) = Len(b)
            /\ Cardinality({i \in 1..Len(b) : a[i] # b[i]}) = 1

\* C2: after update_markdown_task(T), every line whose label is not exactly
\* T (it only contains T, or has T as a strict prefix) is byte-identical.
C2_OnlyExactLabelChanged ==
    Patched =>
        LET b == ByteLines(BeforeCall, <<>>)
            a == ByteLines(AfterCall, <<>>)
        IN  /\ Len(a) = Len(b)
            /\ \A i \in 1..Len(b) :
                  ~HasLabel(b[i], LastCall.name) => a[i] = b[i]

\* C4: when exactly one line has label T and it is unchecked, patching T to
\* done and then back to not-done gives back the original file.
C4_PatchSelfInverse ==
    ( /\ pc = "call" /\ Len(hist) = 2
      /\ hist[1].name = hist[2].name
      /\ hist[1].status /\ ~hist[2].status
      /\ LET o == ByteLines(hist[1].md["sprint.md"].bytes, <<>>)
             ls == {i \in 1..Len(o) : HasLabel(o[i], hist[1].name)}
         IN  /\ Cardinality(ls) = 1
             /\ \A i \in ls : MarkOf(o[i]) = SP )
    => md["sprint.md"].bytes = hist[1].md["sprint.md"].bytes

(***************************************************************************)
(* Properties of the command-line operations, under Spec.                  *)
(***************************************************************************)
\* C3: toggling a name that no task of the store has changes no file
\* (sprint.json, sprint.md and todo.md are as before, none is created) and
\* reports "Task not found".
C3_ToggleUnknownChangesNothing ==
    (AfterOp({"toggle"}) /\ ExactHits = {}) =>
        (FilesUnchanged /\ out = "not_found" /\ arcano_tasks = hist[1].tasks)

\* a toggle of "A" that found nothing although the store holds "a", with a
\* Markdown file holding that task and no sprint.json on disk
C3_Witness ==
    /\ AfterOp({"toggle"}) /\ ExactHits = {}
    /\ hist[1].name = <<"A">>
    /\ \E i \in 1..Len(arcano_tasks) : arcano_tasks[i].task = <<"a">>
    /\ md["sprint.md"].exists
    /\ json["sprint.json"].kind = "absent"

\* the lines of file f that carry the label text
LinesOf(f, text) ==
    LET ls == ByteLines(md[f].bytes, <<>>)
    IN  {ls[i] : i \in {j \in 1..Len(ls) : HasLabel(ls[j], text)}}

\* C5: after a start, mark-done or toggle that found its task, sprint.json
\* holds the store and, in every Markdown file that exists, the checkbox of
\* the task's line equals the task's done value in the store.
C5_MutatorsPersistAndPatch ==
    (AfterOp(Mutators) /\ hist[1].ret /\ ExactHits # {}) =>
        /\ json["sprint.json"] = JsonDump(arcano_tasks)
        /\ \A f \in MdNames : \A l \in LinesOf(f, hist[1].name) :
              (MarkOf(l) = "x") = arcano_tasks[Min(ExactHits)].done

\* some *.json file of docs decodes to a qualifying array with an item
JsonYields ==
    \E f \in JsonNames : Qualifies(json[f]) /\ Len(json[f].objs) >= 1

\* C6: when no JSON file and no Markdown candidate yields an item the store
\* is the built-in list, and when no JSON file yields an item the Markdown
\* candidates are tried before the built-in list.
C6_DefaultsWhenNoItems ==
    (pc = "loaded" /\ ~JsonYields) =>
        IF MdHits = {} THEN arcano_tasks = arcano_default
        ELSE arcano_tasks = MdTasks(md[MdOrder[Min(MdHits)]])

C8_DoneIsIdempotent ==
    ( /\ AfterOp({"done"}) /\ ExactHits # {}
      /\ hist[1].tasks[Min(ExactHits)].done
      /\ hist[1].tasks[Min(ExactHits)].completed_at # 0 )
    => (out = "completed" /\ arcano_tasks = hist[1].tasks)

\* C9: after run-sprint(name) every task that was unfinished and whose text
\* contains name, case-insensitively, is done in the store and in sprint.json.
C9_RunCompletesMatching ==
    AfterOp({"run"}) =>
        \A i \in 1..Len(hist[1].tasks) :
            ( /\ ~hist[1].tasks[i].done
              /\ Contains(Lower(hist[1].tasks[i].task), Lower(hist[1].name)) )
            => /\ arcano_tasks[i].done
               /\ Qualifies(json["sprint.json"])
               /\ JsonLoad(json["sprint.json"])[i].done

\* C10 as stated: the store built at process start is what the previous
\* state-changing process saved to sprint.json, whatever else docs holds.
C10_LoadSeesLastSave ==
    (pc = "loaded" /\ saved.valid) => arcano_tasks = saved.tasks

\* the first qualifying file of the directory listing is sprint.json
SprintJsonFirst ==
    /\ JsonHits(listing) # {}
    /\ listing[Min(JsonHits(listing))] = "sprint.json"

\* C10 as amended: the store built at process start is what the previous
\* state-changing process saved, when no other qualifying *.json file comes
\* before sprint.json in the directory listing.
C10_LoadSeesLastSaveWhenListedFirst ==
    (pc = "loaded" /\ saved.valid /\ SprintJsonFirst) => arcano_tasks = saved.tasks

\* a process loading a saved completion although another qualifying file is
\* in docs, listed after sprint.json
C10_Witness ==
    /\ pc = "loaded" /\ saved.valid /\ SprintJsonFirst
    /\ Len(listing) = 2 /\ Qualifies(json["other.json"])
    /\ \E i \in 1..Len(arcano_tasks) :
          arcano_tasks[i].done /\ arcano_tasks[i].completed_at # 0

====
